---- MODULE Spec2Model ----
(***************************************************************************)
(* Model of pandas_ta/utils/_core.py and pandas_ta/overlap/hl2.py.         *)
(*                                                                         *)
(* Every function of the two files is a pure transform, so the state is    *)
(* one call: `call` holds the function name and its arguments, `ret` the   *)
(* outcome (a returned value or a raised exception).  Init draws a call    *)
(* from bounded argument sets and one action per function applies it.      *)
(*                                                                         *)
(* Representation of Python / pandas values:                               *)
(*   - a float is [nan, v]: NaN, or the integer v counting multiples of a  *)
(*     fixed unit in which every value of the bounded domain is exactly    *)
(*     representable (the unit is sys.float_info.epsilon for               *)
(*     non_zero_range, one half for hl2);                                  *)
(*   - a scalar argument is [type, v] with type the Python type name; a    *)
(*     float argument counts halves (v = 7 is 3.5);                        *)
(*   - a series argument is [type, data]; data is the sequence of floats   *)
(*     over the default RangeIndex; position i of the code is data[i+1].   *)
(***************************************************************************)
EXTENDS Integers, Sequences, FiniteSets

VARIABLES call, ret

vars == <<call, ret>>

\* ------------------------------------------------------------------------
\* Bounds of the model
\* ------------------------------------------------------------------------
MaxLen == 3

MaxShift == 2

MaxInd == 3

\* ------------------------------------------------------------------------
\* Values
\* ------------------------------------------------------------------------
NaN == [nan |-> TRUE, v |-> 0]

F(x) == [nan |-> FALSE, v |-> x]

PyNone == [type |-> "NoneType", v |-> 0]

PyInt(n) == [type |-> "int", v |-> n]

PyBool(b) == [type |-> "bool", v |-> IF b THEN 1 ELSE 0]

PyFloat(halves) == [type |-> "float", v |-> halves]

PyStr == [type |-> "str", v |-> 0]

NoSeries == [type |-> "NoneType", data |-> <<>>]

Series(d) == [type |-> "Series", data |-> d]

ListObj(d) == [type |-> "list", data |-> d]

Pending == [status |-> "pending"]

Return(x) == [status |-> "return", value |-> x]

Raise(e) == [status |-> "raise", value |-> e]

\* isinstance(x, int): bool is a subclass of int
IsInt(x) == x.type \in {"int", "bool"}

IsNone(x) == x.type = "NoneType"

IsSeries(x) == x.type = "Series"

\* int(x) of a float counted in halves truncates toward zero
Trunc2(h) == IF h >= 0 THEN h \div 2 ELSE -((-h) \div 2)

SeqsUpTo(S, n) == UNION {[1..k -> S] : k \in 0..n}

\* ------------------------------------------------------------------------
\* get_drift, get_offset, verify_series
\* ------------------------------------------------------------------------
get_drift(x) == IF IsInt(x) /\ x.v # 0 THEN x.v ELSE 1

get_offset(x) == IF IsInt(x) THEN x.v ELSE 0

\* variant: min_length is compared whatever its type
verify_series_any_length(series, min_length) ==
    LET has_length == ~IsNone(min_length)
    IN  IF ~IsNone(series) /\ IsSeries(series)
        THEN IF has_length /\ Len(series.data) < min_length.v
             THEN NoSeries
             ELSE series
        ELSE NoSeries

verify_series(series, min_length) ==
    LET has_length == ~IsNone(min_length) /\ IsInt(min_length)
    IN  IF ~IsNone(series) /\ IsSeries(series)
        THEN IF has_length /\ Len(series.data) < min_length.v
             THEN NoSeries
             ELSE series
        ELSE NoSeries

\* ------------------------------------------------------------------------
\* pandas primitives used by the functions
\* ------------------------------------------------------------------------
FAdd(a, b) == IF a.nan \/ b.nan THEN NaN ELSE F(a.v + b.v)

FSub(a, b) == IF a.nan \/ b.nan THEN NaN ELSE F(a.v - b.v)

\* 0.5 * x on a float counted in halves; exact on the even sums of the domain
FHalf(a) == IF a.nan THEN NaN ELSE F(a.v \div 2)

Max2(a, b) == IF a >= b THEN a ELSE b

\* Series + Series / Series - Series: aligned on the union of the two
\* RangeIndexes, unmatched positions are NaN
SeriesAdd(a, b) ==
    [i \in 1..Max2(Len(a), Len(b)) |->
        IF i <= Len(a) /\ i <= Len(b) THEN FAdd(a[i], b[i]) ELSE NaN]

SeriesSub(a, b) ==
    [i \in 1..Max2(Len(a), Len(b)) |->
        IF i <= Len(a) /\ i <= Len(b) THEN FSub(a[i], b[i]) ELSE NaN]

\* Series.shift(periods): positional shift, vacated positions are NaN
Shift(s, periods) ==
    [i \in 1..Len(s) |->
        IF i - periods >= 1 /\ i - periods <= Len(s) THEN s[i - periods] ELSE NaN]

\* Series.diff(periods) == s - s.shift(periods)
Diff(s, periods) == [i \in 1..Len(s) |-> FSub(s[i], Shift(s, periods)[i])]

\* ------------------------------------------------------------------------
\* hl2
\* ------------------------------------------------------------------------
\* high + low after validation.  None + None is a TypeError.  A Series and
\* None: pandas raises TypeError as soon as one element is a number; on a
\* series without any defined element the outcome depends on its dtype
\* (TypeError for a numeric dtype, an all-NaN series for object dtype).
AllNaN(s) == \A i \in 1..Len(s) : s[i].nan

Hl2Sum(high, low) ==
    IF IsSeries(high) /\ IsSeries(low)
    THEN {Return(SeriesAdd(high.data, low.data))}
    ELSE IF IsSeries(high) \/ IsSeries(low)
    THEN LET s == IF IsSeries(high) THEN high.data ELSE low.data
         IN  IF AllNaN(s) THEN {Raise("TypeError"), Return(s)} ELSE {Raise("TypeError")}
    ELSE {Raise("TypeError")}

\* variant: the shift runs toward the start of the series
Hl2ShiftBackward(s, offset) == IF offset # 0 THEN Shift(s, -offset) ELSE s

Hl2Shift(s, offset) == IF offset # 0 THEN Shift(s, offset) ELSE s

Hl2Tag(s) == [type |-> "Series", data |-> s, name |-> "HL2", category |-> "overlap"]

hl2(high0, low0, offset0) ==
    LET high == verify_series(high0, PyNone)
        low == verify_series(low0, PyNone)
        offset == get_offset(offset0)
    IN  {IF sum.status = "raise"
         THEN sum
         ELSE Return(Hl2Tag(Hl2Shift([i \in 1..Len(sum.value) |-> FHalf(sum.value[i])], offset)))
         : sum \in Hl2Sum(high, low)}

\* ------------------------------------------------------------------------
\* non_zero_range
\* ------------------------------------------------------------------------
\* sys.float_info.epsilon, in multiples of itself
Epsilon == 1

\* variant: only the zero elements are bumped
AddEpsilonToZeros(diff) ==
    [i \in 1..Len(diff) |->
        IF ~diff[i].nan /\ diff[i].v = 0 THEN F(Epsilon) ELSE diff[i]]

\* diff += sflt.epsilon
AddEpsilon(diff) == [i \in 1..Len(diff) |-> FAdd(diff[i], F(Epsilon))]

\* diff.eq(0).any().any(): NaN never equals 0
AnyZero(diff) == \E i \in 1..Len(diff) : ~diff[i].nan /\ diff[i].v = 0

non_zero_range(high, low) ==
    LET diff == SeriesSub(high.data, low.data)
    IN  Return(Series(IF AnyZero(diff) THEN AddEpsilon(diff) ELSE diff))

\* ------------------------------------------------------------------------
\* recent_maximum_index, recent_minimum_index
\* ------------------------------------------------------------------------
\* x[::-1]
Reverse(x) == [i \in 1..Len(x) |-> x[Len(x) + 1 - i]]

\* numpy.argmax / numpy.argmin: a left-to-right scan that keeps the first
\* extreme value; the result is its 0-based position
RECURSIVE ArgMaxScan(_, _, _)
ArgMaxScan(x, i, best) ==
    IF i > Len(x) THEN best - 1
    ELSE ArgMaxScan(x, i + 1, IF x[i] > x[best] THEN i ELSE best)

RECURSIVE ArgMinScan(_, _, _)
ArgMinScan(x, i, best) ==
    IF i > Len(x) THEN best - 1
    ELSE ArgMinScan(x, i + 1, IF x[i] < x[best] THEN i ELSE best)

ArgMax(x) == ArgMaxScan(x, 2, 1)

ArgMin(x) == ArgMinScan(x, 2, 1)

\* variant: the window is scanned without being reversed
RecentMaxPickForward(x) == ArgMax(x)

RecentMaxPick(x) == ArgMax(Reverse(x))

RecentMinPick(x) == ArgMin(Reverse(x))

\* argmax of an empty sequence raises ValueError
recent_maximum_index(x) ==
    IF Len(x) = 0 THEN Raise("ValueError") ELSE Return(RecentMaxPick(x))

recent_minimum_index(x) ==
    IF Len(x) = 0 THEN Raise("ValueError") ELSE Return(RecentMinPick(x))

\* ------------------------------------------------------------------------
\* signed_series
\* ------------------------------------------------------------------------
\* sign[sign > 0] = 1; sign[sign < 0] = -1 (NaN compares false and is kept)
SignOf(d) ==
    IF d.nan THEN NaN
    ELSE IF d.v > 0 THEN F(1)
    ELSE IF d.v < 0 THEN F(-1)
    ELSE d

\* a scalar stored into a float series: None becomes NaN
ToFloat(x) == IF IsNone(x) THEN NaN ELSE F(x.v)

\* sign.iloc[0] = initial
SetFirst(sign, initial) ==
    [i \in 1..Len(sign) |-> IF i = 1 THEN ToFloat(initial) ELSE sign[i]]

signed_series(series0, initial0, lag0) ==
    LET initial == IF ~IsNone(initial0) /\ lag0.type # "str" THEN initial0 ELSE PyNone
        lag == IF ~IsNone(lag0) /\ IsInt(lag0) THEN lag0.v ELSE 1
        series == verify_series(series0, PyNone)
    IN  IF ~IsSeries(series) THEN Raise("AttributeError")
        ELSE LET d == Diff(series.data, lag)
                 sign == [i \in 1..Len(d) |-> SignOf(d[i])]
             IN  IF Len(sign) = 0 THEN Raise("IndexError")
                 ELSE Return(Series(SetFirst(sign, initial)))

\* ------------------------------------------------------------------------
\* unsigned_differences
\* ------------------------------------------------------------------------
\* negative.fillna(0, inplace=True)
FillNa0(d) == IF d.nan THEN F(0) ELSE d

\* positive[positive <= 0] = 0; positive[positive > 0] = 1
PositiveMask(d) ==
    LET a == IF d.v <= 0 THEN F(0) ELSE d
    IN  IF a.v > 0 THEN F(1) ELSE a

\* variant: the two assignments of the negative mask in the other order
NegativeMaskSwapped(d) ==
    LET a == IF d.v < 0 THEN F(1) ELSE d
    IN  IF a.v >= 0 THEN F(0) ELSE a

\* negative[negative >= 0] = 0; negative[negative < 0] = 1
NegativeMask(d) ==
    LET a == IF d.v >= 0 THEN F(0) ELSE d
    IN  IF a.v < 0 THEN F(1) ELSE a

\* int(amount) if amount is not None else 1
AmountOf(amount) ==
    IF IsNone(amount) THEN Return(1)
    ELSE IF IsInt(amount) THEN Return(amount.v)
    ELSE IF amount.type = "float" THEN Return(Trunc2(amount.v))
    ELSE Raise("ValueError")

unsigned_differences(series, amount0, asint) ==
    LET amount == AmountOf(amount0)
    IN  IF amount.status = "raise" THEN amount
        ELSE IF ~IsSeries(series) THEN Raise("AttributeError")
        ELSE LET d == Diff(series.data, amount.value)
                 filled == [i \in 1..Len(d) |-> FillNa0(d[i])]
                 dtype == IF asint THEN "int" ELSE "float"
             IN  Return([positive |-> [i \in 1..Len(d) |-> PositiveMask(filled[i])],
                         negative |-> [i \in 1..Len(d) |-> NegativeMask(filled[i])],
                         dtype |-> dtype])

\* ------------------------------------------------------------------------
\* performance
\* ------------------------------------------------------------------------
\* places: int = 5.  Timings are counted in units of 10^-DefaultPlaces
\* seconds, so that ms values carry two decimal digits.
DefaultPlaces == 5

RECURSIVE Pow10(_)
Pow10(n) == IF n <= 0 THEN 1 ELSE 10 * Pow10(n - 1)

\* round() of a non-negative value to a multiple of step, ties to even
RoundHalfEven(x, step) ==
    LET q == x \div step
        r == x % step
    IN  IF 2 * r < step THEN q * step
        ELSE IF 2 * r > step THEN (q + 1) * step
        ELSE IF q % 2 = 0 THEN q * step ELSE (q + 1) * step

\* round(0.001 * ms, p): p must be an int or None (None rounds to an integer)
ms2secs(ms, p) ==
    IF IsNone(p) THEN Return(RoundHalfEven(ms, Pow10(DefaultPlaces)))
    ELSE IF IsInt(p) THEN Return(RoundHalfEven(ms, Pow10(DefaultPlaces - p.v)))
    ELSE Raise("TypeError")

\* indicator_time: one row per indicator, in the order of the registry
indicator_time(times, p) ==
    IF \E i \in 1..Len(times) : ms2secs(times[i], p).status = "raise"
    THEN Raise("TypeError")
    ELSE Return([i \in 1..Len(times) |->
                    [name |-> i, secs |-> ms2secs(times[i], p).value, ms |-> times[i]]])

IndexPermutations(n) == {f \in [1..n -> 1..n] : \A i, j \in 1..n : f[i] = f[j] => i = j}

\* tdf.sort_values(by=sortby, ascending=ascending): the default quicksort is
\* not stable, rows with equal keys come out in any order
SortValues(rows, by, ascending) ==
    {[i \in 1..Len(rows) |-> rows[f[i]]] : f \in
        {g \in IndexPermutations(Len(rows)) :
            \A i \in 1..(Len(rows) - 1) :
                IF ascending
                THEN rows[g[i]][by] <= rows[g[i + 1]][by]
                ELSE rows[g[i]][by] >= rows[g[i + 1]][by]}}

RECURSIVE SumSeq(_)
SumSeq(s) == IF Len(s) = 0 THEN 0 ELSE s[1] + SumSeq(Tail(s))

RECURSIVE Gcd(_, _)
Gcd(a, b) == IF b = 0 THEN a ELSE Gcd(b, a % b)

\* sum / count as a fraction in lowest terms
Mean(sum, count) == <<sum \div Gcd(sum, count), count \div Gcd(sum, count)>>

Ordered(s) ==
    CHOOSE o \in [1..Len(s) -> {s[i] : i \in 1..Len(s)}] :
        /\ \A i \in 1..(Len(s) - 1) : o[i] <= o[i + 1]
        /\ \E f \in IndexPermutations(Len(s)) : \A i \in 1..Len(s) : o[i] = s[f[i]]

\* describe().loc[['min', '50%', 'mean', 'max']] and sum() of one column;
\* the median is kept doubled and the mean as a fraction
DescribeColumn(s) ==
    LET o == Ordered(s)
        n == Len(s)
    IN  [min |-> o[1],
         median2 |-> IF n % 2 = 1 THEN 2 * o[(n + 1) \div 2] ELSE o[n \div 2] + o[n \div 2 + 1],
         mean |-> Mean(SumSeq(s), n),
         max |-> o[n],
         total |-> SumSeq(s)]

Column(rows, c) == [i \in 1..Len(rows) |-> rows[i][c]]

Describe(rows) == [secs |-> DescribeColumn(Column(rows, "secs")),
                   ms |-> DescribeColumn(Column(rows, "ms"))]

\* tdf.head(top)
HeadRows(rows, n) == SubSeq(rows, 1, IF n < Len(rows) THEN n ELSE Len(rows))

\* top = int(top) if isinstance(top, int) and top > 0 else None; 0 is None
TopOf(top) == IF IsInt(top) /\ top.v > 0 THEN top.v ELSE 0

\* variant: the table is cut to top before the summary is taken
PerfReportCutFirst(sorted, top) ==
    LET cut == IF top # 0 THEN HeadRows(sorted, top) ELSE sorted
    IN  [table |-> cut, stats |-> Describe(cut), count |-> Len(sorted)]

\* the summary is taken from the sorted table, then the table is cut to top
PerfReport(sorted, top) ==
    [table |-> IF top # 0 THEN HeadRows(sorted, top) ELSE sorted,
     stats |-> Describe(sorted),
     count |-> Len(sorted)]

PerfNone == [status |-> "return", value |-> [kind |-> "None"], printed |-> [kind |-> "nothing"]]

PerfReturn(report, gradient, stats) ==
    [status |-> "return",
     value |-> IF gradient THEN [kind |-> "styled, stats", table |-> report.table, stats |-> report.stats]
               ELSE IF stats THEN [kind |-> "table, stats", table |-> report.table, stats |-> report.stats]
               ELSE [kind |-> "table", table |-> report.table],
     printed |-> [kind |-> "report", table |-> report.table, stats |-> report.stats,
                  count |-> report.count]]

performance(empty, times, top0, ascending, sortby, gradient, places, stats) ==
    IF empty THEN {PerfNone}
    ELSE IF Len(times) = 0 THEN {PerfNone}
    ELSE LET top == TopOf(top0)
             data == indicator_time(times, places)
         IN  IF data.status = "raise" THEN {data}
             ELSE {PerfReturn(PerfReport(sorted, top), gradient, stats) :
                      sorted \in SortValues(data.value, sortby, ascending)}

\* ------------------------------------------------------------------------
\* Argument domains
\* ------------------------------------------------------------------------
\* prices: whole numbers counted in halves, and NaN
PriceVals == {F(2), F(4), NaN}

\* high / low around a zero range, in multiples of epsilon, and NaN
RangeVals == {F(0), F(1), F(2), NaN}

\* values of a differenced series
NumVals == {F(1), F(2), F(3), NaN}

\* values of a window
WindowVals == {1, 2, 3}

\* reported timings in hundredths of a millisecond: 1.2 ms, 1.4 ms, 2.6 ms
MsVals == {120, 140, 260}

ScalarArgs == {PyNone, PyStr, PyFloat(3), PyFloat(5), PyBool(TRUE), PyBool(FALSE)}
                \cup {PyInt(n) : n \in -MaxShift..MaxShift}

SeriesArgs(S) == {NoSeries, ListObj(<<>>)} \cup {Series(d) : d \in SeqsUpTo(S, MaxLen)}

Hl2Calls ==
    {[op |-> "hl2", high |-> h, low |-> l, offset |-> o] :
        h \in SeriesArgs(PriceVals), l \in SeriesArgs(PriceVals), o \in ScalarArgs}

NonZeroRangeCalls ==
    {[op |-> "non_zero_range", high |-> Series(h), low |-> Series(l)] :
        h \in SeqsUpTo(RangeVals, MaxLen), l \in SeqsUpTo(RangeVals, MaxLen)}

RecentCalls ==
    {[op |-> o, window |-> x] :
        o \in {"recent_maximum_index", "recent_minimum_index"},
        x \in SeqsUpTo(WindowVals, MaxLen)}

SignedSeriesCalls ==
    {[op |-> "signed_series", series |-> s, initial |-> i, lag |-> l] :
        s \in SeriesArgs(NumVals), i \in {PyNone, PyInt(0), PyInt(7)}, l \in ScalarArgs}

UnsignedDifferencesCalls ==
    {[op |-> "unsigned_differences", series |-> s, amount |-> a, asint |-> b] :
        s \in SeriesArgs(NumVals), a \in ScalarArgs, b \in BOOLEAN}

VerifySeriesCalls ==
    {[op |-> "verify_series", series |-> s, min_length |-> m] :
        s \in SeriesArgs(PriceVals),
        m \in ScalarArgs \cup {PyInt(n) : n \in 0..(MaxLen + 1)}}

GetOffsetCalls == {[op |-> "get_offset", x |-> x] : x \in ScalarArgs}

GetDriftCalls == {[op |-> "get_drift", x |-> x] : x \in ScalarArgs}

PerformanceCalls ==
    {[op |-> "performance", empty |-> e, times |-> ts, top |-> top,
      ascending |-> a, sortby |-> by, gradient |-> g, places |-> p, stats |-> st] :
        e \in BOOLEAN, ts \in SeqsUpTo(MsVals, MaxInd),
        top \in {PyNone, PyStr, PyFloat(3), PyBool(TRUE)} \cup {PyInt(n) : n \in -1..(MaxInd + 1)},
        a \in BOOLEAN, by \in {"secs", "ms"}, g \in BOOLEAN,
        p \in {PyInt(3), PyInt(DefaultPlaces), PyNone, PyStr, PyFloat(5)}, st \in BOOLEAN}

\* ------------------------------------------------------------------------
\* Specification
\* ------------------------------------------------------------------------
Init ==
    /\ \/ call \in Hl2Calls
       \/ call \in NonZeroRangeCalls
       \/ call \in RecentCalls
       \/ call \in SignedSeriesCalls
       \/ call \in UnsignedDifferencesCalls
       \/ call \in VerifySeriesCalls
       \/ call \in GetOffsetCalls
       \/ call \in GetDriftCalls
       \/ call \in PerformanceCalls
    /\ ret = Pending

CallHl2 ==
    /\ call.op = "hl2"
    /\ ret = Pending
    /\ ret' \in hl2(call.high, call.low, call.offset)
    /\ UNCHANGED call

CallNonZeroRange ==
    /\ call.op = "non_zero_range"
    /\ ret = Pending
    /\ ret' = non_zero_range(call.high, call.low)
    /\ UNCHANGED call

CallRecentMaximumIndex ==
    /\ call.op = "recent_maximum_index"
    /\ ret = Pending
    /\ ret' = recent_maximum_index(call.window)
    /\ UNCHANGED call

CallRecentMinimumIndex ==
    /\ call.op = "recent_minimum_index"
    /\ ret = Pending
    /\ ret' = recent_minimum_index(call.window)
    /\ UNCHANGED call

CallSignedSeries ==
    /\ call.op = "signed_series"
    /\ ret = Pending
    /\ ret' = signed_series(call.series, call.initial, call.lag)
    /\ UNCHANGED call

CallUnsignedDifferences ==
    /\ call.op = "unsigned_differences"
    /\ ret = Pending
    /\ ret' = unsigned_differences(call.series, call.amount, call.asint)
    /\ UNCHANGED call

CallVerifySeries ==
    /\ call.op = "verify_series"
    /\ ret = Pending
    /\ ret' = Return(verify_series(call.series, call.min_length))
    /\ UNCHANGED call

CallGetOffset ==
    /\ call.op = "get_offset"
    /\ ret = Pending
    /\ ret' = Return(get_offset(call.x))
    /\ UNCHANGED call

CallGetDrift ==
    /\ call.op = "get_drift"
    /\ ret = Pending
    /\ ret' = Return(get_drift(call.x))
    /\ UNCHANGED call

CallPerformance ==
    /\ call.op = "performance"
    /\ ret = Pending
    /\ ret' \in performance(call.empty, call.times, call.top, call.ascending,
                            call.sortby, call.gradient, call.places, call.stats)
    /\ UNCHANGED call

Next ==
    \/ CallHl2
    \/ CallNonZeroRange
    \/ CallRecentMaximumIndex
    \/ CallRecentMinimumIndex
    \/ CallSignedSeries
    \/ CallUnsignedDifferences
    \/ CallVerifySeries
    \/ CallGetOffset
    \/ CallGetDrift
    \/ CallPerformance

Spec == Init /\ [][Next]_vars

\* ------------------------------------------------------------------------
\* Properties
\* ------------------------------------------------------------------------
Done == ret.status # "pending"

Returned == ret.status = "return"

\* C1: whenever high or low is not a valid series (absent or of another
\* type), hl2 raises no exception and returns the absent value.
C1_Hl2FailsSoftly ==
    (call.op = "hl2" /\ Done /\ (~IsSeries(call.high) \/ ~IsSeries(call.low)))
        => (Returned /\ ret.value.type = "NoneType")

\* r is one half of h + l, NaN when either is NaN
IsMidpoint(r, h, l) ==
    IF h.nan \/ l.nan THEN r.nan ELSE ~r.nan /\ 2 * r.v = h.v + l.v

\* C2: for valid series high and low of equal length n, hl2 returns a series
\* of length n; with offset 0 or a non-integer offset every position i holds
\* 0.5*(high[i]+low[i]); with a nonzero integer offset position i holds the
\* unshifted value of position i-offset and is undefined when i < offset.
C2_Hl2Values ==
    (call.op = "hl2" /\ Done /\ IsSeries(call.high) /\ IsSeries(call.low)
        /\ Len(call.high.data) = Len(call.low.data))
        => LET h == call.high.data
               l == call.low.data
               n == Len(h)
               off == IF call.offset.type \in {"int", "bool"} THEN call.offset.v ELSE 0
           IN  /\ Returned
               /\ Len(ret.value.data) = n
               /\ \A i \in 0..(n - 1) :
                    /\ (off = 0) => IsMidpoint(ret.value.data[i + 1], h[i + 1], l[i + 1])
                    /\ (off # 0 /\ i < off) => ret.value.data[i + 1].nan
                    /\ (off # 0 /\ i - off >= 0 /\ i - off <= n - 1)
                        => IsMidpoint(ret.value.data[i + 1], h[i - off + 1], l[i - off + 1])

\* a shifted hl2 call whose result holds a defined value behind the gap
C2_Witness ==
    /\ call.op = "hl2" /\ Returned
    /\ IsSeries(call.high) /\ IsSeries(call.low)
    /\ Len(call.high.data) = Len(call.low.data)
    /\ call.offset.type = "int" /\ call.offset.v = 1
    /\ Len(ret.value.data) >= 2
    /\ ret.value.data[1].nan
    /\ ret.value.data[2] = F(3)

\* high[i] - low[i] stated on the arguments
RangeAt(i) ==
    IF call.high.data[i].nan \/ call.low.data[i].nan THEN NaN
    ELSE F(call.high.data[i].v - call.low.data[i].v)

InitialAsFloat == IF IsNone(call.initial) THEN NaN ELSE F(call.initial.v)

\* positions 1.. of a signed series for the given lag, stated on the arguments
SignedFrom(r, s, lag) ==
    \A i \in 1..(Len(s) - 1) :
        /\ i < lag => r[i + 1].nan
        /\ (i >= lag /\ ~s[i + 1].nan /\ ~s[i - lag + 1].nan) =>
            /\ s[i + 1].v > s[i - lag + 1].v => r[i + 1] = F(1)
            /\ s[i + 1].v < s[i - lag + 1].v => r[i + 1] = F(-1)
            /\ s[i + 1].v = s[i - lag + 1].v => r[i + 1] = F(0)

\* C4: for every valid series, initial value and positive integer lag,
\* signed_series returns a sequence of the same length whose position 0 is
\* initial and whose position i > 0 is undefined for i < lag and otherwise the
\* sign of s[i]-s[i-lag]; with a text lag position 0 is null and lag 1 is used.
C4_SignedSeries ==
    (call.op = "signed_series" /\ Done /\ IsSeries(call.series))
        => /\ (call.lag.type = "int" /\ call.lag.v > 0) =>
                /\ Returned
                /\ Len(ret.value.data) = Len(call.series.data)
                /\ ret.value.data[1] = InitialAsFloat
                /\ SignedFrom(ret.value.data, call.series.data, call.lag.v)
           /\ (call.lag.type = "str") =>
                /\ Returned
                /\ Len(ret.value.data) = Len(call.series.data)
                /\ ret.value.data[1] = NaN
                /\ SignedFrom(ret.value.data, call.series.data, 1)

\* the step of an unsigned_differences call with a valid amount
StepOf(amount) == IF IsNone(amount) THEN 1 ELSE amount.v

\* the amount-step difference at 1-based position i is defined and has sign sg
DiffHasSign(s, i, step, sg) ==
    /\ i - step >= 1 /\ i - step <= Len(s)
    /\ ~s[i].nan /\ ~s[i - step].nan
    /\ IF sg > 0 THEN s[i].v > s[i - step].v ELSE s[i].v < s[i - step].v

\* C5: for every series and integer amount (default 1), unsigned_differences
\* returns two masks of the length of the series with values in {0,1};
\* positive[i] = 1 iff the amount-step difference at i is > 0, negative[i] = 1
\* iff it is < 0, undefined differences are 0 in both and no position is 1 in
\* both.
C5_UnsignedMasks ==
    (call.op = "unsigned_differences" /\ Done /\ IsSeries(call.series)
        /\ (IsNone(call.amount) \/ call.amount.type = "int"))
        => LET s == call.series.data
               step == StepOf(call.amount)
           IN  /\ Returned
               /\ Len(ret.value.positive) = Len(s)
               /\ Len(ret.value.negative) = Len(s)
               /\ \A i \in 1..Len(s) :
                    /\ ret.value.positive[i] \in {F(0), F(1)}
                    /\ ret.value.negative[i] \in {F(0), F(1)}
                    /\ ret.value.positive[i] = F(1) <=> DiffHasSign(s, i, step, 1)
                    /\ ret.value.negative[i] = F(1) <=> DiffHasSign(s, i, step, -1)
                    /\ ~(ret.value.positive[i] = F(1) /\ ret.value.negative[i] = F(1))

\* a one-step difference with an undefined head, a fall and a rise
C5_Witness ==
    /\ call.op = "unsigned_differences" /\ Returned
    /\ call.series = Series(<<F(2), F(1), F(3)>>)
    /\ call.amount = PyInt(1)
    /\ ret.value.positive = <<F(0), F(0), F(1)>>
    /\ ret.value.negative = <<F(0), F(1), F(0)>>

\* len(series) >= min_length for a numeric min_length (a float counts halves)
MeetsLength(series, m) ==
    \/ IsInt(m) /\ Len(series.data) >= m.v
    \/ m.type = "float" /\ 2 * Len(series.data) >= m.v

\* C6: verify_series returns its input unchanged iff it is a valid series and
\* min_length is not given or the length is >= min_length; otherwise it
\* returns the absent value; it never raises.
C6_VerifySeries ==
    (call.op = "verify_series" /\ Done)
        => /\ Returned
           /\ IF IsSeries(call.series)
                 /\ (IsNone(call.min_length) \/ MeetsLength(call.series, call.min_length))
              THEN ret.value = call.series
              ELSE ret.value = NoSeries

\* C6 amended: verify_series returns its input unchanged iff it is a valid
\* series and min_length is not given, is not an integer, or the length is
\* >= min_length; otherwise it returns the absent value; it never raises.
C6_VerifySeriesInt ==
    (call.op = "verify_series" /\ Done)
        => /\ Returned
           /\ IF IsSeries(call.series)
                 /\ (IsNone(call.min_length) \/ call.min_length.type \in {"float", "str"}
                        \/ Len(call.series.data) >= call.min_length.v)
              THEN ret.value = call.series
              ELSE ret.value = NoSeries

\* a series shorter than a non-integer min_length is returned unchanged
C6_Witness ==
    /\ call.op = "verify_series" /\ Returned
    /\ IsSeries(call.series)
    /\ call.min_length = PyFloat(5)
    /\ Len(call.series.data) = 2
    /\ ret.value = call.series

\* the scalar with an invalid value replaced by the given default
OrDefault(x, valid, default) == IF valid THEN x ELSE default

\* C7: invalid numeric parameters never raise and are replaced by the
\* default: get_offset(x) is x for an integer x and 0 otherwise, get_drift(x)
\* is x for a nonzero integer x and 1 otherwise, an invalid amount of
\* unsigned_differences behaves as amount 1, an invalid top or places of
\* performance behaves as no truncation and 5 places.
C7_ParameterDefaults ==
    /\ (call.op = "get_offset" /\ Done)
        => (Returned /\ ret.value = IF call.x.type \in {"int", "bool"} THEN call.x.v ELSE 0)
    /\ (call.op = "get_drift" /\ Done)
        => (Returned /\ ret.value =
                IF call.x.type \in {"int", "bool"} /\ call.x.v # 0 THEN call.x.v ELSE 1)
    /\ (call.op = "unsigned_differences" /\ Done /\ IsSeries(call.series)
            /\ call.amount.type \in {"float", "str"})
        => (Returned /\ ret.value = unsigned_differences(call.series, PyInt(1), call.asint).value)
    /\ (call.op = "performance" /\ Done
            /\ (call.top.type \in {"float", "str"} \/ call.places.type \in {"float", "str"}))
        => (Returned /\ ret \in performance(call.empty, call.times,
                OrDefault(call.top, call.top.type \notin {"float", "str"}, PyNone),
                call.ascending, call.sortby, call.gradient,
                OrDefault(call.places, call.places.type \notin {"float", "str"}, PyInt(DefaultPlaces)),
                call.stats))

\* the call named a positive integer top below the number of timed indicators
TopCuts ==
    /\ call.op = "performance" /\ Returned
    /\ ret.printed.kind = "report"
    /\ call.top.type = "int" /\ call.top.v > 0 /\ call.top.v < Len(call.times)

\* C8: performance runs collect -> sort -> truncate -> summarise: with a
\* positive top below the number of timed indicators the returned/printed
\* summary is computed over exactly the top rows of the returned table.
C8_SummaryOfTopRows ==
    TopCuts =>
        /\ Len(ret.printed.table) = call.top.v
        /\ ret.printed.stats = Describe(ret.printed.table)
        /\ ret.value.kind # "table" => ret.value.stats = Describe(ret.value.table)

RECURSIVE MinSeq(_)
MinSeq(s) == IF Len(s) = 1 THEN s[1]
             ELSE IF s[1] <= MinSeq(Tail(s)) THEN s[1] ELSE MinSeq(Tail(s))

RECURSIVE MaxSeq(_)
MaxSeq(s) == IF Len(s) = 1 THEN s[1]
             ELSE IF s[1] >= MaxSeq(Tail(s)) THEN s[1] ELSE MaxSeq(Tail(s))

\* the summary of every timed indicator, stated on the arguments
SummaryOfAll(stats) ==
    LET all == indicator_time(call.times, call.places).value
    IN  /\ stats = Describe(all)
        /\ stats.ms.total = SumSeq(call.times)
        /\ stats.ms.mean[1] * Len(call.times) = stats.ms.mean[2] * SumSeq(call.times)
        /\ stats.ms.min = MinSeq(call.times)
        /\ stats.ms.max = MaxSeq(call.times)

\* C8 amended: performance runs collect -> sort -> summarise -> truncate:
\* with a positive top below the number of timed indicators the returned
\* table holds exactly the first top rows, and the returned/printed summary
\* is computed over all timed indicators, not over the rows that remain.
C8_SummaryOfAllRows ==
    TopCuts =>
        /\ Len(ret.printed.table) = call.top.v
        /\ ret.printed.count = Len(call.times)
        /\ SummaryOfAll(ret.printed.stats)
        /\ ret.value.kind # "table" =>
            (ret.value.stats = ret.printed.stats /\ ret.value.table = ret.printed.table)

\* a report cut to one of three rows whose summary still totals all three
C8_Witness ==
    /\ TopCuts
    /\ call.top.v = 1
    /\ call.times = <<120, 260, 140>>
    /\ ret.value.kind = "table, stats"
    /\ Len(ret.value.table) = 1
    /\ ret.value.stats.ms.total = 520
    /\ ret.value.stats # Describe(ret.value.table)

\* r counts back from the end of the window to the last occurrence of m
IsRecentIndexOf(r, x, m) ==
    /\ r \in 0..(Len(x) - 1)
    /\ x[Len(x) - r] = m
    /\ \A p \in 1..Len(x) : p > Len(x) - r => x[p] # m

\* C9: for a non-empty window x of length n, recent_maximum_index returns r
\* with 0 <= r < n such that x[n-1-r] is the maximum of x and no later
\* position holds the maximum; recent_minimum_index likewise for the minimum.
C9_RecentIndex ==
    /\ (call.op = "recent_maximum_index" /\ Done /\ Len(call.window) > 0)
        => (Returned /\ IsRecentIndexOf(ret.value, call.window, MaxSeq(call.window)))
    /\ (call.op = "recent_minimum_index" /\ Done /\ Len(call.window) > 0)
        => (Returned /\ IsRecentIndexOf(ret.value, call.window, MinSeq(call.window)))

\* a window whose maximum is tied: the occurrence closer to the end is reported
C9_Witness ==
    /\ call.op = "recent_maximum_index" /\ Returned
    /\ call.window = <<3, 3, 1>>
    /\ ret.value = 1

\* C10: for aligned series with defined values no element of
\* non_zero_range(high, low) is exactly zero, also when one element of
\* high-low is -epsilon and another is 0.
C10_NeverZero ==
    (call.op = "non_zero_range" /\ Done /\ Len(call.high.data) = Len(call.low.data)
        /\ \A i \in 1..Len(call.high.data) : ~call.high.data[i].nan /\ ~call.low.data[i].nan)
        => (Returned /\ \A i \in 1..Len(ret.value.data) : ret.value.data[i] # F(0))

====
